---- MODULE Spec2Model ----
(***************************************************************************)
(* Model of the transfer engine of api-prime-bank (src/index.js):          *)
(* POST /transactions (validation, runTransaction callback, commit with    *)
(* conflict retry), PUT /transactions/:id and DELETE /transactions/:id,    *)
(* over the bankAccounts and transactions collections, and of the          *)
(* requests that read them: GET /transactions, GET /transactions/:id,      *)
(* GET /analytics and GET /bankAccount/user.                               *)
(***************************************************************************)
EXTENDS Integers, Sequences, FiniteSets, TLC

\* ------------------------------------------------------------------------
\* Bounds of the model
\* ------------------------------------------------------------------------
MaxTransfers == 2   \* POST /transactions requests submitted in one behaviour
MaxAttempts == 2    \* attempts runTransaction makes before it gives up
MaxEdits == 1       \* PUT / DELETE requests in one behaviour

Reqs == {"r1", "r2"}            \* concurrently handled POST /transactions
Users == {"u1", "u2"}           \* user ids: owners of accounts and records
Requesters == {"u1"}            \* req.user.user_id of POST /transactions
AccountIds == {"a1", "a2", "a3"} \* document ids of bankAccounts; a3 has no document
Categories == {"food"}
Dates == {0, 1}                \* values new Date() takes, in time order

\* ------------------------------------------------------------------------
\* JavaScript numbers: integers and NaN
\* ------------------------------------------------------------------------
Num(n) == [nan |-> FALSE, v |-> n]
NaN == [nan |-> TRUE, v |-> 0]

JsAdd(a, b) == IF a.nan \/ b.nan THEN NaN ELSE Num(a.v + b.v)
JsSub(a, b) == IF a.nan \/ b.nan THEN NaN ELSE Num(a.v - b.v)
JsLt(a, b) == ~a.nan /\ ~b.nan /\ a.v < b.v
JsLe(a, b) == ~a.nan /\ ~b.nan /\ a.v <= b.v

\* x || 0 on a number: 0 and NaN are falsy
OrZero(x) == IF x.nan \/ x.v = 0 THEN Num(0) ELSE x

\* ------------------------------------------------------------------------
\* Values of req.body.amount: undefined, a JSON number, a JSON string
\* (a string is a sequence of one-character strings)
\* ------------------------------------------------------------------------
Undefined == [k |-> "undefined", n |-> 0, s |-> <<>>]
JNum(n) == [k |-> "number", n |-> n, s |-> <<>>]
JStr(s) == [k |-> "string", n |-> 0, s |-> s]

DecDigits == {"0", "1", "2", "3"}
HexDigits == DecDigits \cup {"a"}

DigitVal(c) ==
  CASE c = "0" -> 0 [] c = "1" -> 1 [] c = "2" -> 2 [] c = "3" -> 3
    [] c = "a" -> 10 [] OTHER -> 0

AllIn(s, D) == \A i \in 1..Len(s) : s[i] \in D

RECURSIVE PosVal(_, _)
PosVal(s, base) ==
  IF s = <<>> THEN 0
  ELSE PosVal(SubSeq(s, 1, Len(s) - 1), base) * base + DigitVal(s[Len(s)])

\* longest prefix of s made of decimal digits
RECURSIVE DigitPrefix(_)
DigitPrefix(s) ==
  IF s = <<>> \/ s[1] \notin DecDigits THEN <<>>
  ELSE <<s[1]>> \o DigitPrefix(Tail(s))

\* Number(s) of a string: the whole string must be a numeric literal
StringToNumber(s) ==
  IF s = <<>> THEN Num(0)
  ELSE IF AllIn(s, DecDigits) THEN Num(PosVal(s, 10))
  ELSE IF s[1] = "-" /\ Len(s) > 1 /\ AllIn(Tail(s), DecDigits)
    THEN Num(0 - PosVal(Tail(s), 10))
  ELSE IF Len(s) >= 3 /\ s[1] = "0" /\ s[2] = "x"
          /\ AllIn(SubSeq(s, 3, Len(s)), HexDigits)
    THEN Num(PosVal(SubSeq(s, 3, Len(s)), 16))
  ELSE NaN

\* parseFloat(s) of a string: the longest numeric prefix, NaN when empty
ParseFloatStr(s) ==
  LET neg == s # <<>> /\ s[1] = "-"
      rest == IF neg THEN Tail(s) ELSE s
      p == DigitPrefix(rest)
  IN IF p = <<>> THEN NaN
     ELSE IF neg THEN Num(0 - PosVal(p, 10)) ELSE Num(PosVal(p, 10))

\* ToNumber(amount), as the comparison amount <= 0 applies it
ToNumber(a) ==
  CASE a.k = "undefined" -> NaN
    [] a.k = "number" -> Num(a.n)
    [] OTHER -> StringToNumber(a.s)

\* !amount
Falsy(a) ==
  CASE a.k = "undefined" -> TRUE
    [] a.k = "number" -> a.n = 0
    [] OTHER -> a.s = <<>>

\* parseFloat(amount)
ParseFloat(a) ==
  CASE a.k = "undefined" -> NaN
    [] a.k = "number" -> Num(a.n)
    [] OTHER -> ParseFloatStr(a.s)

\* request bodies the model submits
AmountInputs ==
  {Undefined, JNum(0 - 1), JNum(0), JNum(2),
   JStr(<<"a">>), JStr(<<"-", "2", "a">>), JStr(<<"0", "x", "1">>)}
IdInputs == AccountIds \cup {""}

\* ------------------------------------------------------------------------
\* State
\* ------------------------------------------------------------------------
VARIABLES
  bankAccounts,   \* collection bankAccounts: account id -> document
  transactions,   \* collection transactions: record id -> document
  nextId,         \* next store-assigned record id
  clock,          \* the latest value new Date() returned
  req,            \* per handled POST /transactions: inputs, position, reads
  started,        \* POST /transactions submitted so far
  edits,          \* PUT / DELETE handled so far
  lastEdit,       \* the last PUT / DELETE request and its HTTP status
  lastRead        \* the last GET request and its response

vars == <<bankAccounts, transactions, nextId, clock, req, started, edits,
          lastEdit, lastRead>>

NoDoc == [exists |-> FALSE, associatedUser |-> "", name |-> "",
          balance |-> Num(0)]

\* two accounts as app.post("/users") creates them (owner, name, balance),
\* with balances counted in small units; a3 names no document
InitAccounts ==
  [a \in AccountIds |->
     CASE a = "a1" -> [exists |-> TRUE, associatedUser |-> "u1",
                       name |-> "Ana", balance |-> Num(2)]
       [] a = "a2" -> [exists |-> TRUE, associatedUser |-> "u2",
                       name |-> "Bia", balance |-> Num(1)]
       [] OTHER -> NoDoc]

IdleReq ==
  [pc |-> "idle", userId |-> "", fromAccountId |-> "", toAccountId |-> "",
   amount |-> Undefined, category |-> "", fromDoc |-> NoDoc,
   toDoc |-> NoDoc, stale |-> FALSE, attempts |-> 0, resp |-> ""]

NoEdit == [op |-> "", userId |-> "", id |-> 0, status |-> 0]

NoRead == [op |-> ""]

Init ==
  /\ bankAccounts = InitAccounts
  /\ transactions = <<>>
  /\ nextId = 1
  /\ clock = 0
  /\ req = [r \in Reqs |-> IdleReq]
  /\ started = 0
  /\ edits = 0
  /\ lastEdit = NoEdit
  /\ lastRead = NoRead

\* ------------------------------------------------------------------------
\* POST /transactions
\* ------------------------------------------------------------------------
\* the input check before the atomic section
InvalidInput(fromAccountId, toAccountId, amount) ==
  \/ fromAccountId = ""
  \/ toAccountId = ""
  \/ Falsy(amount)
  \/ JsLe(ToNumber(amount), Num(0))

\* variant: the funds check made before the ownership check
CallbackErrorFundsFirst(fromDoc, toDoc, userId, amount) ==
  IF ~fromDoc.exists \/ ~toDoc.exists THEN "AccountNotFound"
  ELSE IF JsLt(OrZero(fromDoc.balance), ParseFloat(amount))
    THEN "InsufficientFunds"
  ELSE IF fromDoc.associatedUser # userId THEN "PermissionDenied"
  ELSE ""

\* variant: the funds check written with <= in place of <
CallbackErrorNonStrict(fromDoc, toDoc, userId, amount) ==
  IF ~fromDoc.exists \/ ~toDoc.exists THEN "AccountNotFound"
  ELSE IF fromDoc.associatedUser # userId THEN "PermissionDenied"
  ELSE IF JsLe(OrZero(fromDoc.balance), ParseFloat(amount))
    THEN "InsufficientFunds"
  ELSE ""

\* the checks of the runTransaction callback, in the order of the throws
CallbackError(fromDoc, toDoc, userId, amount) ==
  IF ~fromDoc.exists \/ ~toDoc.exists THEN "AccountNotFound"
  ELSE IF fromDoc.associatedUser # userId THEN "PermissionDenied"
  ELSE IF JsLt(OrZero(fromDoc.balance), ParseFloat(amount))
    THEN "InsufficientFunds"
  ELSE ""

NewFromBalance(fromDoc, amount) ==
  JsSub(OrZero(fromDoc.balance), ParseFloat(amount))

NewToBalance(toDoc, amount) ==
  JsAdd(OrZero(toDoc.balance), ParseFloat(amount))

SenderTransactionData(rq, date) ==
  [fromAccountId |-> rq.fromAccountId, toAccountId |-> rq.toAccountId,
   amount |-> ParseFloat(rq.amount), date |-> date, createdAt |-> date,
   associatedUser |-> rq.fromDoc.associatedUser, type |-> "sended",
   name |-> rq.fromDoc.name, category |-> rq.category]

\* variant: the receiver's record given the sender's user
ReceiverOwnedBySender(rq, date) ==
  [fromAccountId |-> rq.fromAccountId, toAccountId |-> rq.toAccountId,
   amount |-> ParseFloat(rq.amount), date |-> date, createdAt |-> date,
   associatedUser |-> rq.fromDoc.associatedUser, type |-> "received",
   name |-> rq.toDoc.name, category |-> rq.category]

ReceiverTransactionData(rq, date) ==
  [fromAccountId |-> rq.fromAccountId, toAccountId |-> rq.toAccountId,
   amount |-> ParseFloat(rq.amount), date |-> date, createdAt |-> date,
   associatedUser |-> rq.toDoc.associatedUser, type |-> "received",
   name |-> rq.toDoc.name, category |-> rq.category]

\* transaction.update(fromAccountRef), then transaction.update(toAccountRef):
\* applied in this order, so the second wins when both name one document
UpdateBalances(accts, rq) ==
  LET debited == [accts EXCEPT ![rq.fromAccountId].balance =
                                  NewFromBalance(rq.fromDoc, rq.amount)]
  IN [debited EXCEPT ![rq.toAccountId].balance =
                        NewToBalance(rq.toDoc, rq.amount)]

\* variant: the receiver's document is not written
SetSenderRecordOnly(recs, rq, date, senderId, receiverId) ==
  (senderId :> SenderTransactionData(rq, date)) @@ recs

\* transaction.set of the two new documents
SetRecords(recs, rq, date, senderId, receiverId) ==
  (senderId :> SenderTransactionData(rq, date))
    @@ (receiverId :> ReceiverTransactionData(rq, date)) @@ recs

\* variant: the writes are kept although the callback threw
CommitsAlways(err) == TRUE

\* runTransaction commits the buffered writes when the callback returned,
\* and rolls back when it threw
Commits(err) == err = ""

\* variant: a commit is never rejected
NoConflict(rq) == FALSE

\* the store rejects a commit when a document the transaction read was
\* written after the read
Conflict(rq) == rq.stale

\* documents request rq has read in its current attempt
ReadSet(rq) ==
  IF rq.pc = "commit" THEN {rq.fromAccountId, rq.toAccountId} ELSE {}

\* HTTP response of the catch block
ErrorResponse(err) ==
  IF err \in {"InsufficientFunds", "PermissionDenied", "AccountNotFound"}
  THEN err ELSE "InternalFailure"

\* a handler that has sent its response after the given number of retries
Done(resp, attempts) ==
  [IdleReq EXCEPT !.pc = "done", !.resp = resp, !.attempts = attempts]

\* the handler up to the first await: destructuring and input check.
\* The handlers are interchangeable, so a free one with a smaller name is
\* taken first.
Submit(r) ==
  /\ req[r].pc \in {"idle", "done"}
  /\ r = "r2" => req["r1"].pc \notin {"idle", "done"}
  /\ started < MaxTransfers
  /\ edits = 0
  /\ \E u \in Requesters, f \in IdInputs, t \in IdInputs, a \in AmountInputs,
        c \in Categories :
       req' = [req EXCEPT ![r] =
                 IF InvalidInput(f, t, a)
                 THEN Done("InvalidRequest", 0)
                 ELSE [IdleReq EXCEPT !.pc = "get", !.userId = u,
                         !.fromAccountId = f, !.toAccountId = t,
                         !.amount = a, !.category = c]]
  /\ started' = started + 1
  /\ UNCHANGED <<bankAccounts, transactions, nextId, clock, edits, lastEdit,
                 lastRead>>

\* await transaction.get(fromAccountRef); await transaction.get(toAccountRef):
\* both reads are served from the snapshot of the transaction
Get(r) ==
  /\ req[r].pc = "get"
  /\ req' = [req EXCEPT ![r].pc = "commit",
                        ![r].fromDoc = bankAccounts[req[r].fromAccountId],
                        ![r].toDoc = bankAccounts[req[r].toAccountId]]
  /\ UNCHANGED <<bankAccounts, transactions, nextId, clock, started, edits,
                 lastEdit, lastRead>>

\* the response of the handler once runTransaction has ended
Response(err) == IF err = "" THEN "Created" ELSE ErrorResponse(err)

\* the rest of the callback (it has no further await) and the end of
\* runTransaction: a new attempt or 500 on a conflict at commit; else the
\* four writes and 201 when the callback returned, rollback and 403 when it
\* threw. A commit makes stale every other attempt that read a written
\* document.
Finish(r) ==
  /\ req[r].pc = "commit"
  /\ LET rq == req[r]
         err == CallbackError(rq.fromDoc, rq.toDoc, rq.userId, rq.amount)
     IN IF err = "" /\ Conflict(rq)
        THEN /\ req' = [req EXCEPT ![r] =
                   IF rq.attempts + 1 < MaxAttempts
                   THEN [rq EXCEPT !.pc = "get", !.fromDoc = NoDoc,
                           !.toDoc = NoDoc, !.stale = FALSE,
                           !.attempts = rq.attempts + 1]
                   ELSE Done(ErrorResponse("Aborted"), rq.attempts)]
             /\ UNCHANGED <<bankAccounts, transactions, nextId, clock>>
        ELSE IF Commits(err)
        THEN /\ \E now \in {d \in Dates : d >= clock} :
                  /\ clock' = now
                  /\ transactions' =
                       SetRecords(transactions, rq, now, nextId, nextId + 1)
             /\ bankAccounts' = UpdateBalances(bankAccounts, rq)
             /\ nextId' = nextId + 2
             /\ req' = [q \in Reqs |->
                  IF q = r THEN Done(Response(err), rq.attempts)
                  ELSE IF ReadSet(req[q])
                            \cap {rq.fromAccountId, rq.toAccountId} # {}
                    THEN [req[q] EXCEPT !.stale = TRUE]
                  ELSE req[q]]
        ELSE /\ req' = [req EXCEPT ![r] = Done(Response(err), rq.attempts)]
             /\ UNCHANGED <<bankAccounts, transactions, nextId, clock>>
  /\ UNCHANGED <<started, edits, lastEdit, lastRead>>

\* ------------------------------------------------------------------------
\* PUT /transactions/:id and DELETE /transactions/:id
\*
\* A transfer never reads the transactions collection and these two handlers
\* never read bankAccounts, so their steps commute with those of a transfer:
\* the model runs them once the transfers are answered. Each handler is one
\* step: the owner of a record never changes, so the ownership read by
\* docRef.get() still holds when docRef.update() or docRef.delete() runs.
\* ------------------------------------------------------------------------
\* req.params.id values: the two records of the first transfer and the
\* sender record of the second, which are missing until these commit
ParamIds == {1, 2, 3}

\* the value PUT gives to the date field: a string, not a timestamp
StringDate == 0 - 1

\* value a request body gives to a field of a record
BodyValue(f) ==
  CASE f = "amount" -> Num(9)
    [] f = "fromAccountId" -> "a3"
    [] f = "toAccountId" -> "a3"
    [] f = "associatedUser" -> "u3"
    [] f = "date" -> StringDate
    [] OTHER -> "misc"

\* req.body of PUT: the set of fields it names
Bodies ==
  {{"category", "date"}, {"amount", "fromAccountId", "toAccountId"},
   {"associatedUser", "category"}}

\* delete updateData.associatedUser; docRef.update(updateData)
UpdateRecord(rec, body) ==
  [f \in DOMAIN rec |->
     IF f \in body \ {"associatedUser"} THEN BodyValue(f) ELSE rec[f]]

\* removal of one document from a collection
DeleteDoc(recs, id) == [i \in DOMAIN recs \ {id} |-> recs[i]]

Put(u, id, body) ==
  /\ edits < MaxEdits
  /\ \A r \in Reqs : req[r].pc \in {"idle", "done"}
  /\ edits' = edits + 1
  /\ IF id \notin DOMAIN transactions
     THEN /\ lastEdit' = [op |-> "put", userId |-> u, id |-> id,
                          status |-> 404]
          /\ UNCHANGED transactions
     ELSE IF transactions[id].associatedUser # u
     THEN /\ lastEdit' = [op |-> "put", userId |-> u, id |-> id,
                          status |-> 403]
          /\ UNCHANGED transactions
     ELSE /\ lastEdit' = [op |-> "put", userId |-> u, id |-> id,
                          status |-> 200]
          /\ transactions' =
               [transactions EXCEPT ![id] = UpdateRecord(@, body)]
  /\ UNCHANGED <<bankAccounts, nextId, clock, req, started, lastRead>>

Delete(u, id) ==
  /\ edits < MaxEdits
  /\ \A r \in Reqs : req[r].pc \in {"idle", "done"}
  /\ edits' = edits + 1
  /\ IF id \notin DOMAIN transactions
     THEN /\ lastEdit' = [op |-> "delete", userId |-> u, id |-> id,
                          status |-> 404]
          /\ UNCHANGED transactions
     ELSE IF transactions[id].associatedUser # u
     THEN /\ lastEdit' = [op |-> "delete", userId |-> u, id |-> id,
                          status |-> 403]
          /\ UNCHANGED transactions
     ELSE /\ lastEdit' = [op |-> "delete", userId |-> u, id |-> id,
                          status |-> 200]
          /\ transactions' = DeleteDoc(transactions, id)
  /\ UNCHANGED <<bankAccounts, nextId, clock, req, started, lastRead>>

\* ------------------------------------------------------------------------
\* GET /transactions
\*
\* The handlers that only read are one step each: they run a single query
\* (or a single read) and answer from its result. The model runs them
\* between transfers; what they read is a store a serial order of the
\* transfers produces. The minAmount, maxAmount and month filters are left
\* out of the requests.
\* ------------------------------------------------------------------------
\* transactionDate instanceof Date && !isNaN(transactionDate)
IsDate(d) == d \in Dates

\* position of a date value in the order of the store: every string comes
\* after every timestamp
DateRank(d) == IF IsDate(d) THEN d ELSE 2

\* orderBy("date", "asc"), kept as the opposite of the order of the query
PrecedesAscending(recs, i, j) ==
  \/ DateRank(recs[i].date) < DateRank(recs[j].date)
  \/ DateRank(recs[i].date) = DateRank(recs[j].date) /\ i < j

\* orderBy("date", "desc"): document i comes before document j; documents
\* of equal date are ordered by id in the same direction
Precedes(recs, i, j) ==
  \/ DateRank(recs[i].date) > DateRank(recs[j].date)
  \/ DateRank(recs[i].date) = DateRank(recs[j].date) /\ i > j

\* the query without its filter
Everyone(recs, u) == DOMAIN recs

\* where("associatedUser", "==", userId)
Where(recs, u) == {i \in DOMAIN recs : recs[i].associatedUser = u}

\* startAt(cursorDoc), which keeps the cursor document
StartAt(recs, S, cursor) == {i \in S : ~Precedes(recs, i, cursor)}

\* startAfter(cursorDoc)
StartAfter(recs, S, cursor) == {i \in S : Precedes(recs, cursor, i)}

RECURSIVE OrderBy(_, _)
OrderBy(recs, S) ==
  IF S = {} THEN <<>>
  ELSE LET first == CHOOSE i \in S :
                      \A j \in S \ {i} : Precedes(recs, i, j)
       IN <<first>> \o OrderBy(recs, S \ {first})

\* limit(pageSize)
Limit(docs, n) == SubSeq(docs, 1, IF n < Len(docs) THEN n ELSE Len(docs))

DefaultPageSize == 100

\* req.query.itemsPerPage; 0 stands for a request that does not give it
ItemsPerPage == {0, 1, 2}

\* req.query.lastItemId; 0 stands for a request that does not give it
LastItemIds == {0} \cup ParamIds

\* parseInt(itemsPerPage, 10) || 100
PageSize(itemsPerPage) ==
  IF itemsPerPage = 0 THEN DefaultPageSize ELSE itemsPerPage

\* the response of GET /transactions
ListTransactions(recs, u, itemsPerPage, lastItemId) ==
  LET pageSize == PageSize(itemsPerPage)
      query    == Where(recs, u)
      from     == IF lastItemId # 0 /\ lastItemId \in DOMAIN recs
                  THEN StartAfter(recs, query, lastItemId)
                  ELSE query
      docs     == Limit(OrderBy(recs, from), pageSize)
  IN [status       |-> 200,
      data         |-> [k \in 1..Len(docs) |->
                          [id |-> docs[k], doc |-> recs[docs[k]]]],
      itemsPerPage |-> pageSize,
      nextCursorId |-> IF docs = <<>> THEN 0 ELSE docs[Len(docs)],
      hasMore      |-> Len(docs) = pageSize]

\* A read runs when the transfers and edits of the behaviour are over: a
\* refused request changes nothing, so every store the program reaches is
\* read. A read changes nothing a later request sees, so a behaviour ends
\* with its first read.
Quiet ==
  /\ \A r \in Reqs : req[r].pc \in {"idle", "done"}
  /\ started = MaxTransfers
  /\ edits = MaxEdits
  /\ lastRead = NoRead

List(u, itemsPerPage, lastItemId) ==
  /\ Quiet
  /\ lastRead' = [op |-> "list", userId |-> u,
                  itemsPerPage |-> itemsPerPage, lastItemId |-> lastItemId,
                  resp |-> ListTransactions(transactions, u, itemsPerPage,
                                            lastItemId)]
  /\ UNCHANGED <<bankAccounts, transactions, nextId, clock, req, started,
                 edits, lastEdit>>

\* ------------------------------------------------------------------------
\* GET /analytics
\* ------------------------------------------------------------------------
\* parseFloat(data.amount || 0), on the numbers a record holds
AmountOf(data) == OrZero(data.amount)

\* the += of the aggregation loop over a set of documents
RECURSIVE SumAmounts(_, _)
SumAmounts(recs, S) ==
  IF S = {} THEN Num(0)
  ELSE LET i == CHOOSE j \in S : TRUE
       IN JsAdd(AmountOf(recs[i]), SumAmounts(recs, S \ {i}))

\* transactionDate instanceof Date && !isNaN(transactionDate): the
\* documents that enter the monthly aggregation
InAMonth(recs, S) == {i \in S : IsDate(recs[i].date)}

\* monthKey: the times of the model fall in different months
MonthKey(d) == d

\* parseFloat(x.toFixed(2)), on the whole numbers of the model
ToFixed2(x) == x

\* the documents of where("associatedUser", "==", userId) on bankAccounts,
\* in the order of a query without orderBy: by document id
AccountOrder == <<"a1", "a2", "a3">>

OwnedAccounts(accts, u) ==
  SelectSeq(AccountOrder,
            LAMBDA a : accts[a].exists /\ accts[a].associatedUser = u)

\* the response of GET /analytics
AnalyticsData(recs, accts, u) ==
  LET docs     == Where(recs, u)
      sended   == {i \in docs : recs[i].type = "sended"}
      received == {i \in docs : recs[i].type = "received"}
      dated    == InAMonth(recs, docs)
      months   == {MonthKey(recs[i].date) : i \in dated}
      of(S, m) == {i \in S \cap dated : MonthKey(recs[i].date) = m}
  IN [status |-> 200,
      kpis |->
        [totalTransactions |-> Cardinality(docs),
         totalAmountMoved  |-> SumAmounts(recs, docs),
         receivedAmount    |-> SumAmounts(recs, received),
         sendedAmount      |-> SumAmounts(recs, sended),
         currentBalance    |->
           IF OwnedAccounts(accts, u) = <<>> THEN Num(0)
           ELSE OrZero(accts[OwnedAccounts(accts, u)[1]].balance)],
      monthlyFlowData |->
        [m \in months |->
           [income  |-> ToFixed2(SumAmounts(recs, of(received, m))),
            expense |-> ToFixed2(SumAmounts(recs, of(sended, m)))]]]

Analytics(u) ==
  /\ Quiet
  /\ lastRead' = [op |-> "analytics", userId |-> u,
                  resp |-> AnalyticsData(transactions, bankAccounts, u)]
  /\ UNCHANGED <<bankAccounts, transactions, nextId, clock, req, started,
                 edits, lastEdit>>

\* ------------------------------------------------------------------------
\* GET /transactions/:id
\* ------------------------------------------------------------------------
\* the response of GET /transactions/:id
GetTransaction(recs, u, id) ==
  IF id \notin DOMAIN recs THEN [status |-> 404]
  ELSE IF recs[id].associatedUser # u THEN [status |-> 403]
  ELSE [status |-> 200, id |-> id, doc |-> recs[id]]

GetById(u, id) ==
  /\ Quiet
  /\ lastRead' = [op |-> "get", userId |-> u, id |-> id,
                  resp |-> GetTransaction(transactions, u, id)]
  /\ UNCHANGED <<bankAccounts, transactions, nextId, clock, req, started,
                 edits, lastEdit>>

\* ------------------------------------------------------------------------
\* GET /bankAccount/user
\* ------------------------------------------------------------------------
\* req.user.user_id: the users of the store and one who has no account
Owners == Users \cup {"u3"}

\* the response of GET /bankAccount/user. The handler takes snapshot.docs[1],
\* the second document; with one document it is undefined, doc.id throws
\* and the catch block answers 500.
FindByOwner(accts, u) ==
  LET docs == OwnedAccounts(accts, u)
  IN IF docs = <<>> THEN [status |-> 404]
     ELSE IF Len(docs) < 2 THEN [status |-> 500]
     ELSE [status |-> 200, id |-> docs[2], doc |-> accts[docs[2]]]

FindAccount(u) ==
  /\ Quiet
  /\ lastRead' = [op |-> "findByOwner", userId |-> u,
                  resp |-> FindByOwner(bankAccounts, u)]
  /\ UNCHANGED <<bankAccounts, transactions, nextId, clock, req, started,
                 edits, lastEdit>>

\* ------------------------------------------------------------------------
\* Specifications
\* ------------------------------------------------------------------------
Transfer ==
  \E r \in Reqs : Submit(r) \/ Get(r) \/ Finish(r)

Edit ==
  \E u \in Users, id \in ParamIds :
    \/ \E body \in Bodies : Put(u, id, body)
    \/ Delete(u, id)

Next == Transfer \/ Edit

Spec == Init /\ [][Next]_vars

\* The requests that read, over the stores that transfers made one at a
\* time and edits produce.
TransferInTurn == Submit("r1") \/ Get("r1") \/ Finish("r1")

Read ==
  \/ \E u \in Users :
       \/ \E n \in ItemsPerPage, c \in LastItemIds : List(u, n, c)
       \/ \E id \in ParamIds : GetById(u, id)
       \/ Analytics(u)
  \/ \E u \in Owners : FindAccount(u)

\* the edits of one user: a change of category and date, and a removal
EditByOne ==
  \E id \in ParamIds :
    Put("u1", id, {"category", "date"}) \/ Delete("u1", id)

QueryNext == TransferInTurn \/ EditByOne \/ Read

QuerySpec == Init /\ [][QueryNext]_vars

\* ------------------------------------------------------------------------
\* Steps of a transfer, as seen in two successive states
\* ------------------------------------------------------------------------
Failures ==
  {"InvalidRequest", "AccountNotFound", "PermissionDenied",
   "InsufficientFunds", "InternalFailure"}

\* request r ends its atomic section in this step
Ending(r) == req[r].pc = "commit" /\ req'[r].pc = "done"

\* request r commits in this step
Committing(r) == Ending(r) /\ req'[r].resp = "Created"

\* request r is answered with a failure in this step
Failing(r) ==
  /\ req'[r].pc = "done"
  /\ req'[r].resp \in Failures
  /\ req[r].pc = "commit" \/ started' # started

NewIds == DOMAIN transactions' \ DOMAIN transactions

StoreUnchanged == bankAccounts' = bankAccounts /\ transactions' = transactions

\* the four writes of request r, and nothing else, appear in this step
AllFourWrites(r) ==
  LET rq == req[r]
      amt == ParseFloat(rq.amount)
  IN /\ bankAccounts'[rq.toAccountId].balance =
          JsAdd(OrZero(rq.toDoc.balance), amt)
     /\ rq.fromAccountId # rq.toAccountId =>
          bankAccounts'[rq.fromAccountId].balance =
            JsSub(OrZero(rq.fromDoc.balance), amt)
     /\ \A a \in AccountIds \ {rq.fromAccountId, rq.toAccountId} :
          bankAccounts'[a] = bankAccounts[a]
     /\ Cardinality(NewIds) = 2
     /\ \E i \in NewIds : transactions'[i].type = "sended"
     /\ \E i \in NewIds : transactions'[i].type = "received"
     /\ \A i \in DOMAIN transactions :
          i \in DOMAIN transactions' /\ transactions'[i] = transactions[i]

\* ------------------------------------------------------------------------
\* C1: a step that changes a balance or adds a record is the commit of one
\* transfer and carries all four of its writes (both balance updates, the
\* sended record and the received record); every commit carries all four.
\* ------------------------------------------------------------------------
TransferAtomicity ==
  [][/\ (bankAccounts' # bankAccounts \/ NewIds # {}) =>
          \E r \in Reqs : Committing(r) /\ AllFourWrites(r)
     /\ \A r \in Reqs : Committing(r) => AllFourWrites(r)]_vars

\* one transfer has committed while another attempt, now stale, is in flight
AtomicityWitness ==
  \E r, q \in Reqs :
    /\ req[r].resp = "Created"
    /\ req[q].pc = "commit" /\ req[q].stale
    /\ Cardinality(DOMAIN transactions) = 2

\* ------------------------------------------------------------------------
\* C2: a transfer request answered with a failure (400, 403 or 500) leaves
\* every balance and the set of records as they were.
\* ------------------------------------------------------------------------
FailedTransferChangesNothing ==
  [][\A r \in Reqs : Failing(r) => StoreUnchanged]_vars

\* after a transfer of 2 from a1 to a2, a second one failed for lack of funds
FailedTransferWitness ==
  \E r \in Reqs :
    /\ req[r].resp = "InsufficientFunds"
    /\ bankAccounts["a1"].balance = Num(0)
    /\ bankAccounts["a2"].balance = Num(3)
    /\ DOMAIN transactions = {1, 2}

\* ------------------------------------------------------------------------
\* C3: the sum of all account balances is the same after any sequence of
\* transfers as before it.
\* ------------------------------------------------------------------------
TotalBalance(accts) ==
  JsAdd(accts["a1"].balance, JsAdd(accts["a2"].balance, accts["a3"].balance))

ConservationOfMoney == TotalBalance(bankAccounts) = TotalBalance(InitAccounts)

\* ------------------------------------------------------------------------
\* C4: starting from non-negative balances, no account balance is negative.
\* ------------------------------------------------------------------------
NoNegativeBalance ==
  \A a \in AccountIds : ~JsLt(bankAccounts[a].balance, Num(0))

\* ------------------------------------------------------------------------
\* C5 as stated: a transfer whose requester is not the owner of the source
\* account fails with PermissionDenied whatever the destination account is.
\* ------------------------------------------------------------------------
NotOwner(r) ==
  /\ bankAccounts[req[r].fromAccountId].exists
  /\ bankAccounts[req[r].fromAccountId].associatedUser # req[r].userId

SerialWrites(r) ==
  LET rq == req[r]
      amt == ParseFloat(rq.amount)
      from == bankAccounts[rq.fromAccountId]
      to == bankAccounts[rq.toAccountId]
  IN /\ rq.fromDoc = from
     /\ rq.toDoc = to
     /\ ~JsLt(OrZero(from.balance), amt)
     /\ bankAccounts'[rq.toAccountId].balance = JsAdd(OrZero(to.balance), amt)
     /\ rq.fromAccountId # rq.toAccountId =>
          bankAccounts'[rq.fromAccountId].balance =
            JsSub(OrZero(from.balance), amt)

Rerun(r) ==
  \/ /\ req'[r].pc = "get"
     /\ req'[r].attempts = req[r].attempts + 1
     /\ req'[r].fromDoc = NoDoc /\ req'[r].toDoc = NoDoc
  \/ /\ req'[r].pc = "done"
     /\ req'[r].resp = "InternalFailure"

NoLostUpdate ==
  [][\A r \in Reqs :
       /\ Committing(r) => SerialWrites(r)
       /\ (req[r].pc = "commit" /\ req[r].stale /\ req'[r].pc # "commit"
           /\ req'[r].resp # "Created") =>
             StoreUnchanged
             /\ (req'[r].resp \in {"", "InternalFailure"} => Rerun(r))]_vars

\* a transfer committed on its second attempt, after the other one
RetriedCommitWitness ==
  \E r, q \in Reqs :
    /\ r # q
    /\ req[r].resp = "Created" /\ req[r].attempts = 1
    /\ req[q].resp = "Created"
    /\ Cardinality(DOMAIN transactions) = 4

\* ------------------------------------------------------------------------
\* C7 as stated: a commit adds exactly two records, a sended one owned by the
\* source account's user and a received one owned by the destination
\* account's user, which differ in owner and direction tag only.
\* ------------------------------------------------------------------------
PairedRecords(r, differing) ==
  \E i, j \in NewIds :
    /\ NewIds = {i, j} /\ i # j
    /\ transactions'[i].type = "sended"
    /\ transactions'[i].associatedUser =
         bankAccounts[req[r].fromAccountId].associatedUser
    /\ transactions'[j].type = "received"
    /\ transactions'[j].associatedUser =
         bankAccounts[req[r].toAccountId].associatedUser
    /\ \A f \in DOMAIN transactions'[i] \ differing :
         transactions'[i][f] = transactions'[j][f]

PairDiffersInOwnerAndTypeOnly ==
  [][\A r \in Reqs :
       Committing(r) => PairedRecords(r, {"associatedUser", "type"})]_vars

\* C7 as amended: the two records have the same amount, source id,
\* destination id, timestamps and category, and differ in owner, direction
\* tag and name (each carries the name of its own side's account).
PairDiffersInOwnerTypeAndName ==
  [][\A r \in Reqs :
       Committing(r) =>
         PairedRecords(r, {"associatedUser", "type", "name"})]_vars

\* the pair of a transfer from a1 (owned by u1) to a2 (owned by u2)
PairWitness ==
  /\ {1, 2} \subseteq DOMAIN transactions
  /\ transactions[1].type = "sended" /\ transactions[1].associatedUser = "u1"
  /\ transactions[2].type = "received" /\ transactions[2].associatedUser = "u2"
  /\ transactions[1].name # transactions[2].name
  /\ transactions[1].amount = transactions[2].amount

AtomicSectionAmountPositive ==
  \A r \in Reqs :
    req[r].pc \in {"get", "commit"} =>
      JsLt(Num(0), ParseFloat(req[r].amount))

\* ------------------------------------------------------------------------
\* C10: the amount, source id, destination id and owner of a record never
\* change while the record exists.
\* ------------------------------------------------------------------------
RecordsImmutable ==
  [][\A i \in DOMAIN transactions \cap DOMAIN transactions' :
       /\ transactions'[i].amount = transactions[i].amount
       /\ transactions'[i].fromAccountId = transactions[i].fromAccountId
       /\ transactions'[i].toAccountId = transactions[i].toAccountId
       /\ transactions'[i].associatedUser = transactions[i].associatedUser
     ]_vars

\* ------------------------------------------------------------------------
\* C11: the answer to a transfer whose requester does not own the source
\* account is the same whether or not the source and destination accounts
\* exist: replacing a document the requester does not own by a missing one,
\* or by another document the requester does not own, changes neither the
\* failure kind nor the message.
\* ------------------------------------------------------------------------
\* what the handler answers after reading the two documents
TransferAnswer(fromDoc, toDoc, userId, amount) ==
  Response(CallbackError(fromDoc, toDoc, userId, amount))

\* the documents a store could hold in place of doc without changing any
\* account that user u owns
ForeignVariants(doc, u) ==
  IF doc.exists /\ doc.associatedUser = u THEN {doc}
  ELSE {doc, NoDoc}
         \cup {bankAccounts[a] : a \in {b \in AccountIds :
                 bankAccounts[b].exists /\ bankAccounts[b].associatedUser # u}}

NoExistenceLeak ==
  \A r \in Reqs :
    LET rq == req[r]
    IN (rq.pc = "commit"
        /\ ~(rq.fromDoc.exists /\ rq.fromDoc.associatedUser = rq.userId)) =>
         \A fd \in ForeignVariants(rq.fromDoc, rq.userId),
            td \in ForeignVariants(rq.toDoc, rq.userId) :
           TransferAnswer(fd, td, rq.userId, rq.amount)
             = TransferAnswer(rq.fromDoc, rq.toDoc, rq.userId, rq.amount)

\* ------------------------------------------------------------------------
\* C17: a transfer whose source and destination are the same existing
\* account, requested by its owner with a numeric amount not above the
\* balance, leaves the balance of that account as it was.
\* ------------------------------------------------------------------------
SelfTransferKeepsBalance ==
  [][\A r \in Reqs :
       LET rq == req[r]
       IN (/\ Ending(r)
           /\ rq.fromAccountId = rq.toAccountId
           /\ rq.fromDoc.exists
           /\ rq.fromDoc.associatedUser = rq.userId
           /\ rq.amount.k = "number"
           /\ JsLe(ParseFloat(rq.amount), rq.fromDoc.balance)) =>
            bankAccounts'[rq.fromAccountId].balance
              = bankAccounts[rq.fromAccountId].balance]_vars

\* ------------------------------------------------------------------------
\* Pagination of the log
\* ------------------------------------------------------------------------
\* the pages a client gets that calls list with each page's nextCursorId
\* until hasMore is false, giving up after fuel further calls
RECURSIVE Pages(_, _, _, _, _)
Pages(recs, u, n, cursor, fuel) ==
  LET page == ListTransactions(recs, u, n, cursor)
  IN IF ~page.hasMore \/ fuel = 0 THEN <<page>>
     ELSE <<page>> \o Pages(recs, u, n, page.nextCursorId, fuel - 1)

\* the ids of the records of a sequence of pages, in the order returned
RECURSIVE PageIds(_)
PageIds(pages) ==
  IF pages = <<>> THEN <<>>
  ELSE [k \in 1..Len(Head(pages).data) |-> Head(pages).data[k].id]
         \o PageIds(Tail(pages))

\* a step that answers a request of the given kind
Answers(op) == lastRead' # lastRead /\ lastRead'.op = op

\* C12: on an unchanging log, for every user and page size, calling list
\* with each page's nextCursorId until hasMore is false ends, returns every
\* record of the user exactly once, in descending date order, and hasMore is
\* true exactly on the pages that hold pageSize records.
PaginationReturnsAll ==
  [][(Answers("list") /\ lastRead'.lastItemId = 0) =>
       \A pages \in {Pages(transactions, lastRead'.userId,
                           lastRead'.itemsPerPage, 0,
                           Cardinality(DOMAIN transactions) + 1)} :
         \A ids \in {PageIds(pages)} :
           /\ pages[1] = lastRead'.resp
           /\ ~pages[Len(pages)].hasMore
           /\ {ids[k] : k \in 1..Len(ids)}
                = Where(transactions, lastRead'.userId)
           /\ \A k, l \in 1..Len(ids) : k # l => ids[k] # ids[l]
           /\ \A k, l \in 1..Len(ids) :
                k < l => DateRank(transactions[ids[k]].date)
                           >= DateRank(transactions[ids[l]].date)
           /\ \A k \in 1..Len(pages) :
                pages[k].hasMore
                  <=> Len(pages[k].data) = PageSize(lastRead'.itemsPerPage)]_vars

\* the second and last page of a user's three records, two to a page: it
\* holds one record and hasMore is false
PaginationWitness ==
  /\ lastRead.op = "list"
  /\ lastRead.userId = "u1"
  /\ lastRead.itemsPerPage = 2
  /\ Cardinality(Where(transactions, "u1")) = 3
  /\ ListTransactions(transactions, "u1", 2, 0).hasMore
  /\ lastRead.lastItemId = ListTransactions(transactions, "u1", 2, 0).nextCursorId
  /\ Len(lastRead.resp.data) = 1
  /\ ~lastRead.resp.hasMore

\* record i of the log comes strictly after record c when the log is read
\* from the latest date to the earliest
Later(recs, c, i) ==
  \/ DateRank(recs[i].date) < DateRank(recs[c].date)
  \/ DateRank(recs[i].date) = DateRank(recs[c].date) /\ i < c

\* C13: a list request whose cursor id resolves to a record returns the
\* user's records that come strictly after that record, from the nearest
\* on; one whose cursor id resolves to no record does not fail and returns
\* the first page.
CursorResumesOrRestarts ==
  [][(Answers("list") /\ lastRead'.lastItemId # 0) =>
       LET u     == lastRead'.userId
           n     == lastRead'.itemsPerPage
           c     == lastRead'.lastItemId
           page  == lastRead'.resp
           ids   == {page.data[k].id : k \in 1..Len(page.data)}
           after == {i \in Where(transactions, u) :
                       Later(transactions, c, i)}
       IN /\ page.status = 200
          /\ IF c \in DOMAIN transactions
             THEN /\ ids \subseteq after
                  /\ \A i \in after \ ids :
                       /\ Len(page.data) = PageSize(n)
                       /\ \A j \in ids : Later(transactions, j, i)
             ELSE page = ListTransactions(transactions, u, n, 0)]_vars

\* the owner deleted the record the cursor names, and the next list
\* request with that cursor got records from the top
DeletedCursorWitness ==
  /\ lastEdit.op = "delete"
  /\ lastEdit.status = 200
  /\ lastRead.op = "list"
  /\ lastRead.userId = lastEdit.userId
  /\ lastRead.lastItemId = lastEdit.id
  /\ lastRead.resp.status = 200
  /\ lastRead.resp.data # <<>>
  /\ lastRead.resp
       = ListTransactions(transactions, lastRead.userId,
                          lastRead.itemsPerPage, 0)

\* ------------------------------------------------------------------------
\* Analytics
\* ------------------------------------------------------------------------
RECURSIVE SumOf(_, _)
SumOf(f, D) ==
  IF D = {} THEN Num(0)
  ELSE LET m == CHOOSE x \in D : TRUE
       IN JsAdd(f[m], SumOf(f, D \ {m}))

\* C14: for every user and every reachable log, the analytics report has
\* kpis.totalAmountMoved equal to the sum of the amounts of the user's
\* records, the incomes of monthlyFlowData adding up to kpis.receivedAmount
\* and its expenses adding up to kpis.sendedAmount.
AnalyticsConsistent ==
  \A u \in Users :
    LET report == AnalyticsData(transactions, bankAccounts, u)
        months == DOMAIN report.monthlyFlowData
        ids    == Where(transactions, u)
    IN /\ report.kpis.totalAmountMoved
            = SumOf([i \in ids |-> transactions[i].amount], ids)
       /\ SumOf([m \in months |-> report.monthlyFlowData[m].income], months)
            = report.kpis.receivedAmount
       /\ SumOf([m \in months |-> report.monthlyFlowData[m].expense], months)
            = report.kpis.sendedAmount

\* ------------------------------------------------------------------------
\* Accounts by owner
\* ------------------------------------------------------------------------
\* C15: findByOwner returns an account owned by the user whenever the user
\* owns at least one account, answers NotFound exactly when the user owns
\* none, and never ends in an internal failure.
FindByOwnerFindsAccount ==
  \A u \in Owners :
    LET resp  == FindByOwner(bankAccounts, u)
        owned == {a \in AccountIds : bankAccounts[a].exists
                                     /\ bankAccounts[a].associatedUser = u}
    IN /\ owned # {} => /\ resp.status = 200
                        /\ resp.id \in owned
       /\ resp.status = 404 <=> owned = {}
       /\ resp.status # 500

\* ------------------------------------------------------------------------
\* Isolation of the owners
\* ------------------------------------------------------------------------
\* C16: every record list returns for a user is owned by that user; a get
\* by id by a user who does not own the record is answered 403 without the
\* record; an update or delete by id by a user who does not own the record
\* is answered 403 and changes no record and no balance.
OwnerIsolation ==
  [][/\ Answers("list") =>
          \A k \in 1..Len(lastRead'.resp.data) :
            lastRead'.resp.data[k].doc.associatedUser = lastRead'.userId
     /\ (/\ Answers("get")
         /\ lastRead'.id \in DOMAIN transactions
         /\ transactions[lastRead'.id].associatedUser # lastRead'.userId) =>
          /\ lastRead'.resp = [status |-> 403]
          /\ transactions' = transactions
          /\ bankAccounts' = bankAccounts
     /\ (/\ edits' # edits
         /\ lastEdit'.id \in DOMAIN transactions
         /\ transactions[lastEdit'.id].associatedUser # lastEdit'.userId) =>
          /\ lastEdit'.status = 403
          /\ transactions' = transactions
          /\ bankAccounts' = bankAccounts]_vars

\* a user was refused the update or removal of a record of another user,
\* then was refused its reading
OwnerIsolationWitness ==
  /\ lastEdit.status = 403
  /\ lastRead.op = "get"
  /\ lastRead.userId = lastEdit.userId
  /\ lastRead.id = lastEdit.id
  /\ lastRead.id \in DOMAIN transactions
  /\ transactions[lastRead.id].associatedUser # lastRead.userId
  /\ lastRead.resp.status = 403

====
